---- MODULE Spec2Model ----
(***************************************************************************)
(* MistEthereumProvider (packages/web3-providers): the provider adapter    *)
(* over an event-driven transport.  The model has two halves that share    *)
(* the transport's listener registry:                                      *)
(*   - listener lifecycle: registerEventListeners, removeAllListeners and  *)
(*     the transport's events;                                             *)
(*   - request dispatch: send, sendBatch, sendPayload, the transport's     *)
(*     completion callback and the promise reaction of send.               *)
(***************************************************************************)
EXTENDS Integers, Sequences, FiniteSets, TLC

VARIABLES
    listeners,   \* the transport's registry: event name -> sequence of listener functions
    bindCount,   \* number of closures Function.prototype.bind has produced so far
    invoked,     \* the most recent transport event and the handlers it invoked, in order
    removal,     \* the most recent removeAllListeners call: its argument and the super calls it made
    cleared,     \* the category tokens removeAllListeners was called with since the last
                 \* registerEventListeners call
    messageId,   \* the Payload Mapper's id counter
    transport,   \* what connection.send has received (payload, completion callback) and
                 \* the arguments the transport has passed to that callback so far
    ops,         \* one record per sendPayload invocation (the promises and their history)
    jobs,        \* the promise job queue: reactions of send's .then waiting to run
    thrown,      \* the most recent exception a call raised to its caller, and what the
                 \* call had done by then
    isConnected, \* what the transport's isConnected() answers
    returned     \* the most recent value handed back by disconnect() or the connected getter

vars == <<listeners, bindCount, invoked, removal, cleared, messageId, transport, ops, jobs,
          thrown, isConnected, returned>>

listenerVars == <<listeners, bindCount, invoked, removal, cleared>>
requestVars == <<messageId, transport, ops, jobs, thrown>>
connectionVars == <<isConnected, returned>>

----------------------------------------------------------------------------
(* Bounds *)

MaxRegister == 2    \* registerEventListeners calls explored
MaxOps == 2         \* sendPayload invocations explored

----------------------------------------------------------------------------
(* The transport's events and the provider's category tokens *)

TransportEvents == {"data", "error", "connect", "end"}

SOCKET_MESSAGE == "socket_message"
SOCKET_ERROR == "socket_error"
SOCKET_CONNECT == "socket_connect"
SOCKET_READY == "socket_ready"
SOCKET_CLOSE == "socket_close"

Categories == {SOCKET_MESSAGE, SOCKET_ERROR, SOCKET_CONNECT, SOCKET_READY, SOCKET_CLOSE}

Undefined == "undefined"

\* A function value: the prototype method `name` itself (bound = 0), or the
\* bound-th closure made by name.bind(this) (bound > 0).  Two function values
\* are the same listener only when they are the same value.
Method(name) == [name |-> name, bound |-> 0]
Bind(name, k) == [name |-> name, bound |-> k]

\* The handler the provider runs for a category, and the transport event it hangs on.
HandlerOf(category) ==
    CASE category = SOCKET_MESSAGE -> "onMessage"
      [] category = SOCKET_ERROR -> "onError"
      [] category = SOCKET_CONNECT -> "onConnect"
      [] category = SOCKET_READY -> "onReady"
      [] category = SOCKET_CLOSE -> "onClose"

EventOf(category) ==
    CASE category = SOCKET_MESSAGE -> "data"
      [] category = SOCKET_ERROR -> "error"
      [] category = SOCKET_CONNECT -> "connect"
      [] category = SOCKET_READY -> "connect"
      [] category = SOCKET_CLOSE -> "end"

----------------------------------------------------------------------------
(* The transport's emitter interface *)

\* connection.on(event, fn): appends fn to the event's listeners.
on(L, event, fn) == [L EXCEPT ![event] = Append(@, fn)]

\* Index of the most recently added listener of `event` that is the function fn, 0 if none.
LastIndexOf(list, fn) ==
    LET hits == {i \in 1..Len(list) : list[i] = fn}
    IN IF hits = {} THEN 0 ELSE CHOOSE i \in hits : \A j \in hits : j <= i

RemoveAt(list, i) == SubSeq(list, 1, i - 1) \o SubSeq(list, i + 1, Len(list))

\* connection.removeListener(event, fn): removes the most recently added
\* listener that is the function fn; nothing when fn was never added.
removeListener(L, event, fn) ==
    LET i == LastIndexOf(L[event], fn)
    IN IF i = 0 THEN L ELSE [L EXCEPT ![event] = RemoveAt(@, i)]

\* The handlers an emit of `event` invokes, in registration order.
Dispatch(L, event) == [i \in 1..Len(L[event]) |-> L[event][i].name]

----------------------------------------------------------------------------
(* Listener lifecycle *)

\* registerEventListeners() without the binding of the ready handler.
registerEventListenersNoReady(L, n) ==
    LET L1 == on(L, "data", Bind("onMessage", n + 1))
        L2 == on(L1, "error", Bind("onError", n + 2))
        L3 == on(L2, "connect", Bind("onConnect", n + 3))
        L5 == on(L3, "end", Bind("onClose", n + 5))
    IN L5

\* registerEventListeners(): five connection.on calls, each with a fresh closure.
registerEventListeners(L, n) ==
    LET L1 == on(L, "data", Bind("onMessage", n + 1))
        L2 == on(L1, "error", Bind("onError", n + 2))
        L3 == on(L2, "connect", Bind("onConnect", n + 3))
        L4 == on(L3, "connect", Bind("onReady", n + 4))
        L5 == on(L4, "end", Bind("onClose", n + 5))
    IN L5

\* The switch with a default branch that drops every listener of the transport.
removeTransportListenerClearing(L, event) ==
    CASE event = SOCKET_MESSAGE -> removeListener(L, "data", Method("onMessage"))
      [] event = SOCKET_ERROR -> removeListener(L, "error", Method("onError"))
      [] event = SOCKET_CONNECT -> removeListener(L, "connect", Method("onConnect"))
      [] event = SOCKET_READY -> removeListener(L, "connect", Method("onConnect"))
      [] event = SOCKET_CLOSE -> removeListener(L, "end", Method("onClose"))
      [] OTHER -> [e \in DOMAIN L |-> <<>>]

\* The switch of removeAllListeners(event): the transport-level part.
removeTransportListener(L, event) ==
    CASE event = SOCKET_MESSAGE -> removeListener(L, "data", Method("onMessage"))
      [] event = SOCKET_ERROR -> removeListener(L, "error", Method("onError"))
      [] event = SOCKET_CONNECT -> removeListener(L, "connect", Method("onConnect"))
      [] event = SOCKET_READY -> removeListener(L, "connect", Method("onConnect"))
      [] event = SOCKET_CLOSE -> removeListener(L, "end", Method("onClose"))
      [] OTHER -> L

\* super.removeAllListeners(event): the removal step of the provider's own
\* emitter, recorded as the token it was given.
superRemoveAllListeners(calls, event) == Append(calls, event)

\* removeAllListeners(event) with the super call inside the switch's known cases only.
removeAllListenersSuperInCases(L, event) ==
    [listeners |-> removeTransportListener(L, event),
     event |-> event,
     super |-> IF event \in Categories THEN superRemoveAllListeners(<<>>, event) ELSE <<>>]

\* removeAllListeners(event): the switch, then the super call.
removeAllListeners(L, event) ==
    [listeners |-> removeTransportListener(L, event),
     event |-> event,
     super |-> superRemoveAllListeners(<<>>, event)]

NoRemoval == [event |-> "none", super |-> <<>>]
NoEvent == [event |-> "none", handlers |-> <<>>]

----------------------------------------------------------------------------
(* Values carried by the transport and by the promises *)

Null == "null"
TransportErrors == {"connection lost"}

\* One JSON-RPC response object, or something that is not one.
ItemOk1 == [shape |-> "object", error |-> "", result |-> "0x10"]
ItemOk2 == [shape |-> "object", error |-> "", result |-> "0x20"]
ItemRpcError == [shape |-> "object", error |-> "-32000", result |-> Undefined]
ItemMalformed == [shape |-> "malformed", error |-> "", result |-> Undefined]

\* A raw response as the transport delivers it: one value, or an array of them.
Single(item) == [array |-> FALSE, items |-> <<item>>]
Array(items) == [array |-> TRUE, items |-> items]
RawUndefined == [array |-> FALSE, items |-> <<>>]

SingleResponses == {Single(ItemOk1), Single(ItemOk2), Single(ItemRpcError), Single(ItemMalformed)}
BatchResponses == {Array(<<ItemOk1, ItemOk2>>), Array(<<ItemOk1, ItemRpcError>>)}

\* What a promise is settled with: an error, a raw response, or a result field.
NoValue == [tag |-> "none", err |-> "", raw |-> RawUndefined, result |-> ""]
ErrVal(e) == [tag |-> "error", err |-> e, raw |-> RawUndefined, result |-> ""]
RawVal(r) == [tag |-> "response", err |-> "", raw |-> r, result |-> ""]
ResVal(x) == [tag |-> "result", err |-> "", raw |-> RawUndefined, result |-> x]

\* response.result of a raw response.
ResultField(raw) ==
    IF raw.array \/ raw.items = <<>> THEN Undefined ELSE raw.items[1].result

\* JsonRpcResponseValidator.validate(response): "true", or the error it returns.
ValidTrue == "true"
validate(raw) ==
    IF raw.array \/ raw.items = <<>> THEN "Validation error: Invalid JSON-RPC response"
    ELSE IF raw.items[1].shape # "object" THEN "Validation error: Invalid JSON-RPC response"
    ELSE IF raw.items[1].error # "" THEN "Node error"
    ELSE IF raw.items[1].result = Undefined THEN "Validation error: Undefined JSON-RPC result"
    ELSE ValidTrue

----------------------------------------------------------------------------
(* Payloads *)

\* JsonRpcMapper.toPayload(method, parameters), with the id the mapper's counter gives.
toPayload(id, method, parameters) ==
    [id |-> ToString(id), method |-> method, params |-> parameters, jsonrpc |-> "2.0"]

ObjectPayload(entry) == [array |-> FALSE, entries |-> <<entry>>]
ArrayPayload(entries) == [array |-> TRUE, entries |-> entries]

\* payload.id: the id of an object payload, undefined for an array.
PayloadId(payload) == IF payload.array THEN Undefined ELSE payload.entries[1].id

\* Method descriptors handed to send and sendBatch.
GetBalance == [rpcMethod |-> "eth_getBalance", parameters |-> <<"0xabc">>]
BlockNumber == [rpcMethod |-> "eth_blockNumber", parameters |-> <<>>]
Descriptors == {GetBalance, BlockNumber}

Modules == {"eth"}

\* A descriptor whose parameters its hook cannot format.
Unformattable == [rpcMethod |-> "eth_getBalance", parameters |-> <<"not an address">>]

\* method.beforeExecution(moduleInstance): finalises the descriptor's
\* parameters with the module's context.
beforeExecution(method, moduleInstance) ==
    [method EXCEPT !.parameters = Append(@, moduleInstance)]

\* The error method.beforeExecution(moduleInstance) raises, Null when it returns.
hookError(method, moduleInstance) ==
    IF method = Unformattable THEN "invalid address" ELSE Null

\* A payload a caller hands to sendPayload directly, with an id of the caller's choosing.
DirectPayloads ==
    {ObjectPayload([id |-> "custom", method |-> "eth_syncing", params |-> <<>>, jsonrpc |-> "2.0"])}

----------------------------------------------------------------------------
(* Promises *)

Pending == [state |-> "pending", value |-> NoValue, settles |-> 0]
NoPromise == [state |-> "none", value |-> NoValue, settles |-> 0]

\* A promise that takes every resolve and reject, also after it settled.
SettleAgain(p, state, value) ==
    [state |-> state, value |-> value, settles |-> p.settles + 1]

\* resolve(v) / reject(e) of a promise: settles a pending promise, and is
\* ignored by a settled one.
Settle(p, state, value) ==
    IF p.state = "pending"
    THEN [state |-> state, value |-> value, settles |-> p.settles + 1]
    ELSE p

Step(name, arg) == [step |-> name, arg |-> arg]

----------------------------------------------------------------------------
(* Request dispatch *)

\* The arguments of the call (call), the promise sendPayload returns
\* (promise), the one send returns on top of it (outer; absent for sendBatch
\* and a direct sendPayload), what happened for the request in order (trace),
\* and how often its callback has fired.
NewOp(kind, call, payload, trace) ==
    [kind |-> kind,
     call |-> call,
     payload |-> payload,
     promise |-> Pending,
     outer |-> IF kind = "send" THEN Pending ELSE NoPromise,
     trace |-> trace,
     fired |-> 0]

\* The promise the caller holds.
Returned(op) == IF op.kind = "send" THEN op.outer ELSE op.promise

\* sendPayload(payload) up to its return: the promise executor hands the
\* payload and the completion callback to connection.send.
sendPayload(kind, call, payload, trace, index) ==
    [op |-> NewOp(kind, call, payload, Append(trace, Step("connection.send", PayloadId(payload)))),
     sent |-> [payload |-> payload, callback |-> index, calls |-> <<>>]]

\* What a transport's send may raise instead of taking the request.
RaisedErrors == {"transport closed"}

\* sendPayload(payload) when connection.send raises inside the promise
\* executor: the promise is rejected with the raised error as it is
\* created.  The transport was handed the callback before it raised.
sendPayloadRaising(kind, call, payload, trace, index, error) ==
    LET started == sendPayload(kind, call, payload, trace, index)
    IN [op |-> [started.op EXCEPT !.promise = Settle(@, "rejected", ErrVal(error)),
                                  !.trace = Append(@, Step("raised", error))],
        sent |-> started.sent]

batchStepMapFirst(method, moduleInstance, k, acc) ==
    LET entry == toPayload(acc.id + 1, method.rpcMethod, method.parameters)
    IN [id |-> acc.id + 1,
        payload |-> Append(acc.payload, entry),
        trace |-> acc.trace \o <<Step("toPayload", ToString(k)), Step("beforeExecution", ToString(k))>>,
        thrown |-> hookError(method, moduleInstance)]

\* One iteration with the hook's exception caught and the method left out.
batchStepSkipping(method, moduleInstance, k, acc) ==
    IF hookError(method, moduleInstance) # Null
    THEN [acc EXCEPT !.trace = Append(@, Step("beforeExecution", ToString(k)))]
    ELSE LET prepared == beforeExecution(method, moduleInstance)
             entry == toPayload(acc.id + 1, prepared.rpcMethod, prepared.parameters)
         IN [id |-> acc.id + 1,
             payload |-> Append(acc.payload, entry),
             trace |-> acc.trace \o <<Step("beforeExecution", ToString(k)), Step("toPayload", ToString(k))>>,
             thrown |-> Null]

\* One iteration of sendBatch's forEach: the hook, then the mapping; a hook
\* that raises ends the iteration before the mapping.
batchStep(method, moduleInstance, k, acc) ==
    IF hookError(method, moduleInstance) # Null
    THEN [acc EXCEPT !.trace = Append(@, Step("beforeExecution", ToString(k))),
                     !.thrown = hookError(method, moduleInstance)]
    ELSE LET prepared == beforeExecution(method, moduleInstance)
             entry == toPayload(acc.id + 1, prepared.rpcMethod, prepared.parameters)
         IN [id |-> acc.id + 1,
             payload |-> Append(acc.payload, entry),
             trace |-> acc.trace \o <<Step("beforeExecution", ToString(k)), Step("toPayload", ToString(k))>>,
             thrown |-> Null]

\* methods.forEach(...): an exception leaves the loop and the function.
RECURSIVE forEachMethod(_, _, _, _)
forEachMethod(methods, moduleInstance, k, acc) ==
    IF k > Len(methods) \/ acc.thrown # Null THEN acc
    ELSE forEachMethod(methods, moduleInstance, k + 1,
                       batchStep(methods[k], moduleInstance, k, acc))

\* sendBatch(methods, moduleInstance) up to the sendPayload call.
sendBatch(methods, moduleInstance, id) ==
    forEachMethod(methods, moduleInstance, 1,
                  [id |-> id, payload |-> <<>>, trace |-> <<>>, thrown |-> Null])

\* The callback without its reject(error).
completionCallbackNoReject(op, L, error, response) ==
    LET rm == removeAllListeners(L, PayloadId(op.payload))
        cleaned == op.trace \o [i \in 1..Len(rm.super) |-> Step("removeAllListeners", rm.super[i])]
    IN [listeners |-> rm.listeners,
        removal |-> [event |-> rm.event, super |-> rm.super],
        op |-> IF error = Null
               THEN [op EXCEPT !.promise = Settle(@, "resolved", RawVal(response)),
                               !.trace = Append(cleaned, Step("resolve", "")),
                               !.fired = @ + 1]
               ELSE [op EXCEPT !.trace = cleaned, !.fired = @ + 1]]

\* The callback validating the response itself.
completionCallbackValidating(op, L, error, response) ==
    LET rm == removeAllListeners(L, PayloadId(op.payload))
        cleaned == op.trace \o [i \in 1..Len(rm.super) |-> Step("removeAllListeners", rm.super[i])]
    IN [listeners |-> rm.listeners,
        removal |-> [event |-> rm.event, super |-> rm.super],
        op |-> IF error = Null /\ validate(response) = ValidTrue
               THEN [op EXCEPT !.promise = Settle(@, "resolved", RawVal(response)),
                               !.trace = Append(cleaned, Step("resolve", "")),
                               !.fired = @ + 1]
               ELSE [op EXCEPT !.promise = Settle(@, "rejected",
                                                  ErrVal(IF error = Null THEN validate(response) ELSE error)),
                               !.trace = Append(cleaned, Step("reject", "")),
                               !.fired = @ + 1]]

\* The callback settling the promise before it cleans up.
completionCallbackSettleFirst(op, L, error, response) ==
    LET rm == removeAllListeners(L, PayloadId(op.payload))
        cleanup == [i \in 1..Len(rm.super) |-> Step("removeAllListeners", rm.super[i])]
    IN [listeners |-> rm.listeners,
        removal |-> [event |-> rm.event, super |-> rm.super],
        op |-> IF error = Null
               THEN [op EXCEPT !.promise = Settle(@, "resolved", RawVal(response)),
                               !.trace = Append(@, Step("resolve", "")) \o cleanup,
                               !.fired = @ + 1]
               ELSE [op EXCEPT !.promise = Settle(@, "rejected", ErrVal(error)),
                               !.trace = Append(@, Step("reject", "")) \o cleanup,
                               !.fired = @ + 1]]

\* The completion callback (error, response) => {...} of sendPayload.
completionCallback(op, L, error, response) ==
    LET rm == removeAllListeners(L, PayloadId(op.payload))
        cleaned == op.trace \o [i \in 1..Len(rm.super) |-> Step("removeAllListeners", rm.super[i])]
    IN [listeners |-> rm.listeners,
        removal |-> [event |-> rm.event, super |-> rm.super],
        op |-> IF error = Null
               THEN [op EXCEPT !.promise = Settle(@, "resolved", RawVal(response)),
                               !.trace = Append(cleaned, Step("resolve", "")),
                               !.fired = @ + 1]
               ELSE [op EXCEPT !.promise = Settle(@, "rejected", ErrVal(error)),
                               !.trace = Append(cleaned, Step("reject", "")),
                               !.fired = @ + 1]]

\* The reaction returning the whole response instead of its result field.
thenReactionWholeResponse(op) ==
    IF op.promise.state = "rejected"
    THEN [op EXCEPT !.outer = Settle(@, "rejected", op.promise.value),
                    !.trace = Append(@, Step("rejected", ""))]
    ELSE LET response == op.promise.value.raw
             validationResult == validate(response)
         IN IF validationResult # ValidTrue
            THEN [op EXCEPT !.outer = Settle(@, "rejected", ErrVal(validationResult)),
                            !.trace = @ \o <<Step("validate", ""), Step("throw", "")>>]
            ELSE [op EXCEPT !.outer = Settle(@, "resolved", RawVal(response)),
                            !.trace = @ \o <<Step("validate", ""), Step("return", "")>>]

\* The reaction validating whatever the inner promise settled with.
thenReactionValidatingErrors(op) ==
    LET response == op.promise.value.raw
        validationResult == validate(response)
    IN IF validationResult # ValidTrue
       THEN [op EXCEPT !.outer = Settle(@, "rejected", ErrVal(validationResult)),
                       !.trace = @ \o <<Step("validate", ""), Step("throw", "")>>]
       ELSE [op EXCEPT !.outer = Settle(@, "resolved", ResVal(ResultField(response))),
                       !.trace = @ \o <<Step("validate", ""), Step("return", "")>>]

\* The reaction send attaches with .then: a rejection passes through, a
\* response is validated and its result field extracted.
thenReaction(op) ==
    IF op.promise.state = "rejected"
    THEN [op EXCEPT !.outer = Settle(@, "rejected", op.promise.value),
                    !.trace = Append(@, Step("rejected", ""))]
    ELSE LET response == op.promise.value.raw
             validationResult == validate(response)
         IN IF validationResult # ValidTrue
            THEN [op EXCEPT !.outer = Settle(@, "rejected", ErrVal(validationResult)),
                            !.trace = @ \o <<Step("validate", ""), Step("throw", "")>>]
            ELSE [op EXCEPT !.outer = Settle(@, "resolved", ResVal(ResultField(response))),
                            !.trace = @ \o <<Step("validate", ""), Step("return", "")>>]

\* What the transport may answer to a request of each kind.
ResponsesFor(kind) ==
    CASE kind = "send" -> SingleResponses
      [] kind = "sendBatch" -> BatchResponses
      [] OTHER -> {Single(ItemRpcError), Single(ItemMalformed)}

\* The (error, response) pairs a transport passes to the callback of op.
CallbackArgs(op) ==
    {<<Null, response>> : response \in ResponsesFor(op.kind)}
        \cup {<<error, RawUndefined>> : error \in TransportErrors}

----------------------------------------------------------------------------
(* Connection state *)

\* The connected getter answering true whatever the transport says.
connectedAlways(connection) == TRUE

\* get connected(): this.connection.isConnected()
connected(connection) == connection.isConnected

\* disconnect() closing the transport as a socket provider's would.
disconnectClosing(provider) ==
    [result |-> TRUE,
     provider |-> [provider EXCEPT !.isConnected = FALSE,
                                   !.listeners = [e \in DOMAIN @ |-> <<>>]]]

\* disconnect() failing the requests that are still waiting.
disconnectRejecting(provider) ==
    [result |-> TRUE,
     provider |-> [provider EXCEPT
        !.ops = [i \in DOMAIN @ |-> [@[i] EXCEPT !.promise = Settle(@, "rejected", ErrVal("disconnected"))]]]]

\* disconnect(): return true, with the provider as it was.
disconnect(provider) == [result |-> TRUE, provider |-> provider]

----------------------------------------------------------------------------
(* Initial state and actions *)

Tokens == Categories \cup {Undefined, "1"}

NothingReturned == [call |-> "none", value |-> FALSE]
NothingThrown == [call |-> "none", methods |-> <<>>, error |-> Null, trace |-> <<>>]

\* The token explored next to waiting requests.
LifecycleTokens == {Undefined}

Init ==
    /\ listeners = [e \in TransportEvents |-> <<>>]
    /\ bindCount = 0
    /\ invoked = NoEvent
    /\ removal = NoRemoval
    /\ cleared = {}
    /\ messageId = 0
    /\ transport = <<>>
    /\ ops = <<>>
    /\ jobs = <<>>
    /\ thrown = NothingThrown
    /\ isConnected = TRUE
    /\ returned = NothingReturned

\* provider.registerEventListeners()
RegisterEventListeners ==
    /\ bindCount + 5 <= 5 * MaxRegister
    /\ listeners' = registerEventListeners(listeners, bindCount)
    /\ bindCount' = bindCount + 5
    /\ cleared' = {}
    /\ UNCHANGED <<invoked, removal, requestVars, connectionVars>>

\* provider.removeAllListeners(event), called from outside
RemoveAllListeners(event) ==
    LET rm == removeAllListeners(listeners, event)
    IN /\ listeners' = rm.listeners
       /\ removal' = [event |-> rm.event, super |-> rm.super]
       /\ cleared' = cleared \cup ({event} \cap Categories)
       /\ UNCHANGED <<bindCount, invoked, requestVars, connectionVars>>

\* the transport emits one of its events
Emit(event) ==
    /\ invoked' = [event |-> event, handlers |-> Dispatch(listeners, event)]
    /\ UNCHANGED <<listeners, bindCount, removal, cleared, requestVars, connectionVars>>

\* the common tail of send, sendBatch and sendPayload
Dispatched(kind, call, payload, trace, id) ==
    LET started == sendPayload(kind, call, payload, trace, Len(ops) + 1)
    IN /\ Len(ops) < MaxOps
       /\ ops' = Append(ops, started.op)
       /\ transport' = Append(transport, started.sent)
       /\ messageId' = id
       /\ UNCHANGED <<jobs, thrown, listenerVars, connectionVars>>

\* send mapping every request with the same id.
SendFixedId(method, parameters) ==
    Dispatched("send",
               [methods |-> <<[rpcMethod |-> method, parameters |-> parameters]>>, moduleInstance |-> Undefined],
               ObjectPayload(toPayload(1, method, parameters)),
               <<Step("toPayload", "")>>,
               messageId + 1)

\* the common tail of send and sendPayload over a transport whose send raises;
\* the reaction of send is queued at once, its promise being rejected already
DispatchedRaising(kind, call, payload, trace, id, error) ==
    LET started == sendPayloadRaising(kind, call, payload, trace, Len(ops) + 1, error)
    IN /\ Len(ops) < MaxOps
       /\ ops' = Append(ops, started.op)
       /\ transport' = Append(transport, started.sent)
       /\ messageId' = id
       /\ jobs' = IF kind = "send" THEN Append(jobs, Len(ops) + 1) ELSE jobs
       /\ UNCHANGED <<thrown, listenerVars, connectionVars>>

\* provider.send(method, parameters), the transport's send raising
SendRaising(method, parameters, error) ==
    DispatchedRaising("send",
                      [methods |-> <<[rpcMethod |-> method, parameters |-> parameters]>>, moduleInstance |-> Undefined],
                      ObjectPayload(toPayload(messageId + 1, method, parameters)),
                      <<Step("toPayload", "")>>,
                      messageId + 1, error)

\* provider.sendPayload(payload) called from outside, the transport's send raising
SendPayloadRaising(payload, error) ==
    DispatchedRaising("sendPayload", [methods |-> <<>>, moduleInstance |-> Undefined],
                      payload, <<>>, messageId, error)

\* provider.send(method, parameters)
Send(method, parameters) ==
    Dispatched("send",
               [methods |-> <<[rpcMethod |-> method, parameters |-> parameters]>>, moduleInstance |-> Undefined],
               ObjectPayload(toPayload(messageId + 1, method, parameters)),
               <<Step("toPayload", "")>>,
               messageId + 1)

\* a call that ends with an exception raised to its caller
Raised(call, methods, error, trace, id) ==
    /\ id <= 2 * MaxOps
    /\ thrown' = [call |-> call, methods |-> methods, error |-> error, trace |-> trace]
    /\ messageId' = id
    /\ UNCHANGED <<transport, ops, jobs, listenerVars, connectionVars>>

\* provider.sendBatch(methods, moduleInstance)
SendBatch(methods, moduleInstance) ==
    LET batch == sendBatch(methods, moduleInstance, messageId)
    IN IF batch.thrown # Null
       THEN Raised("sendBatch", methods, batch.thrown, batch.trace, batch.id)
       ELSE Dispatched("sendBatch",
                       [methods |-> methods, moduleInstance |-> moduleInstance],
                       ArrayPayload(batch.payload), batch.trace, batch.id)

\* provider.sendPayload(payload), called from outside
SendPayload(payload) ==
    Dispatched("sendPayload", [methods |-> <<>>, moduleInstance |-> Undefined],
               payload, <<>>, messageId)

\* The answer routed to the oldest request still waiting instead of the
\* one whose callback was invoked.
FireOldest(r, error, response) ==
    LET waiting == {k \in DOMAIN ops : ops[k].promise.state = "pending"}
        i == IF waiting = {} THEN transport[r].callback
             ELSE CHOOSE k \in waiting : \A m \in waiting : k <= m
        done == completionCallback(ops[i], listeners, error, response)
    IN /\ ops' = [ops EXCEPT ![i] = done.op]
       /\ listeners' = done.listeners
       /\ removal' = done.removal
       /\ cleared' = cleared \cup ({done.removal.event} \cap Categories)
       /\ transport' = [transport EXCEPT ![r].calls = Append(@, [error |-> error, response |-> response])]
       /\ jobs' = IF ops[i].kind = "send" /\ ops[i].promise.state = "pending"
                  THEN Append(jobs, i) ELSE jobs
       /\ UNCHANGED <<bindCount, invoked, messageId, thrown, connectionVars>>

\* The callback sending the payload again when the transport reports an error.
FireRetrying(r, error, response) ==
    LET i == transport[r].callback
        done == completionCallback(ops[i], listeners, error, response)
        fired == [transport EXCEPT ![r].calls = Append(@, [error |-> error, response |-> response])]
    IN /\ ops' = [ops EXCEPT ![i] = done.op]
       /\ listeners' = done.listeners
       /\ removal' = done.removal
       /\ cleared' = cleared \cup ({done.removal.event} \cap Categories)
       /\ transport' = IF error = Null THEN fired
                       ELSE Append(fired, [payload |-> ops[i].payload, callback |-> i, calls |-> <<>>])
       /\ jobs' = IF ops[i].kind = "send" /\ ops[i].promise.state = "pending"
                  THEN Append(jobs, i) ELSE jobs
       /\ UNCHANGED <<bindCount, invoked, messageId, thrown, connectionVars>>

\* the transport invokes the completion callback of the r-th connection.send
Fire(r, error, response) ==
    LET i == transport[r].callback
        done == completionCallback(ops[i], listeners, error, response)
    IN /\ ops' = [ops EXCEPT ![i] = done.op]
       /\ listeners' = done.listeners
       /\ removal' = done.removal
       /\ cleared' = cleared \cup ({done.removal.event} \cap Categories)
       /\ transport' = [transport EXCEPT ![r].calls = Append(@, [error |-> error, response |-> response])]
       /\ jobs' = IF ops[i].kind = "send" /\ ops[i].promise.state = "pending"
                  THEN Append(jobs, i) ELSE jobs
       /\ UNCHANGED <<bindCount, invoked, messageId, thrown, connectionVars>>

\* ... once per connection.send, as the transport contract has it
Callback(r) ==
    /\ r \in 1..Len(transport)
    /\ ops[transport[r].callback].fired = 0
    /\ \E args \in CallbackArgs(ops[transport[r].callback]) : Fire(r, args[1], args[2])

\* the job queue runs the oldest waiting reaction
ThenReaction ==
    /\ jobs # <<>>
    /\ ops' = [ops EXCEPT ![Head(jobs)] = thenReaction(@)]
    /\ jobs' = Tail(jobs)
    /\ UNCHANGED <<messageId, transport, thrown, listenerVars, connectionVars>>

\* What disconnect() could reach: the transport and the requests.
Provider ==
    [listeners |-> listeners, isConnected |-> isConnected,
     ops |-> ops, transport |-> transport, jobs |-> jobs]

\* provider.disconnect()
Disconnect ==
    LET call == disconnect(Provider)
    IN /\ returned' = [call |-> "disconnect", value |-> call.result]
       /\ listeners' = call.provider.listeners
       /\ isConnected' = call.provider.isConnected
       /\ ops' = call.provider.ops
       /\ transport' = call.provider.transport
       /\ jobs' = call.provider.jobs
       /\ UNCHANGED <<bindCount, invoked, removal, cleared, messageId, thrown>>

\* a read of provider.connected
ReadConnected ==
    /\ returned' = [call |-> "connected", value |-> connected([isConnected |-> isConnected])]
    /\ UNCHANGED <<listenerVars, requestVars, isConnected>>

\* the transport connects or loses its connection
ConnectivityChanges ==
    /\ isConnected' = ~isConnected
    /\ UNCHANGED <<listenerVars, requestVars, returned>>

\* The batches explored: empty, one method, and two methods in both orders.
Batches ==
    {<<>>, <<GetBalance>>, <<GetBalance, BlockNumber>>, <<BlockNumber, GetBalance>>}

NextListeners ==
    \/ RegisterEventListeners
    \/ \E event \in Tokens : RemoveAllListeners(event)
    \/ \E event \in TransportEvents : Emit(event)

\* registerEventListeners(), called only on a provider that never registered
\* or whose five categories were all removed since
RegisterAfterRemoval ==
    /\ bindCount = 0 \/ cleared = Categories
    /\ RegisterEventListeners

NextDisciplined ==
    \/ RegisterAfterRemoval
    \/ \E event \in Tokens : RemoveAllListeners(event)
    \/ \E event \in TransportEvents : Emit(event)

NextRequests ==
    \/ RegisterEventListeners
    \/ \E d \in Descriptors : Send(d.rpcMethod, d.parameters)
    \/ \E methods \in Batches, m \in Modules : SendBatch(methods, m)
    \/ \E payload \in DirectPayloads : SendPayload(payload)
    \/ \E r \in 1..MaxOps : Callback(r)
    \/ ThenReaction

\* The batches explored with a hook that raises: alone, first, in the
\* middle and last.
RaisingBatches ==
    {<<Unformattable>>, <<Unformattable, GetBalance>>, <<GetBalance, Unformattable>>,
     <<GetBalance, Unformattable, BlockNumber>>, <<BlockNumber, GetBalance, Unformattable>>}

\* ... next to one batch whose hooks all return.
HookBatches == {<<GetBalance, BlockNumber>>} \cup RaisingBatches

NextHooks ==
    \/ RegisterEventListeners
    \/ \E methods \in HookBatches, m \in Modules : SendBatch(methods, m)
    \/ \E r \in 1..MaxOps : Callback(r)

NextRaising ==
    \/ RegisterEventListeners
    \/ Send(GetBalance.rpcMethod, GetBalance.parameters)
    \/ \E error \in RaisedErrors : SendRaising(GetBalance.rpcMethod, GetBalance.parameters, error)
    \/ \E payload \in DirectPayloads, error \in RaisedErrors : SendPayloadRaising(payload, error)
    \/ \E r \in 1..MaxOps : Callback(r)
    \/ ThenReaction

NextLifecycle ==
    \/ RegisterEventListeners
    \/ \E event \in LifecycleTokens : RemoveAllListeners(event)
    \/ \E event \in TransportEvents : Emit(event)
    \/ Send(GetBalance.rpcMethod, GetBalance.parameters)
    \/ \E r \in 1..MaxOps : Callback(r)
    \/ ThenReaction
    \/ Disconnect

NextConnection ==
    \/ RegisterEventListeners
    \/ \E event \in LifecycleTokens : RemoveAllListeners(event)
    \/ Send(GetBalance.rpcMethod, GetBalance.parameters)
    \/ \E r \in 1..MaxOps : Callback(r)
    \/ ThenReaction
    \/ Disconnect
    \/ ReadConnected
    \/ ConnectivityChanges

Next == NextListeners \/ NextRequests \/ NextConnection \/ NextHooks \/ NextRaising

\* the whole provider
Spec == Init /\ [][Next]_vars
\* the listener lifecycle alone
SpecListeners == Init /\ [][NextListeners]_vars
\* the listener lifecycle of a caller who clears all five categories before registering again
SpecDisciplined == Init /\ [][NextDisciplined]_vars
\* request dispatch over a transport that fires each callback at most once
SpecRequests == Init /\ [][NextRequests]_vars
\* send and sendPayload over a transport whose send may raise
SpecRaising == Init /\ [][NextRaising]_vars
\* sendBatch over methods whose hooks may raise
SpecHooks == Init /\ [][NextHooks]_vars
\* send, the listener lifecycle, the transport's events and disconnect() together
SpecLifecycle == Init /\ [][NextLifecycle]_vars
\* send, listener registration and removal, disconnect() and the connected
\* getter over a transport whose connectivity changes
SpecConnection == Init /\ [][NextConnection]_vars

----------------------------------------------------------------------------
(* Properties of request dispatch *)

Range(seq) == {seq[k] : k \in DOMAIN seq}

\* The positions of a trace at which one of the named steps happened.
StepsOf(trace, names) == {k \in DOMAIN trace : trace[k].step \in names}

SendOps == {i \in DOMAIN ops : ops[i].kind = "send"}
BatchOps == {i \in DOMAIN ops : ops[i].kind = "sendBatch"}

\* The callback of request i has been told "no error".
ReportedNoError(i) == transport[i].calls # <<>> /\ transport[i].calls[1].error = Null

\* C1: a send whose callback reported no error rejects with the validator's
\* error when the validator classifies the response as an error, and
\* otherwise resolves with the result field of the response its own callback
\* received; it is settled as soon as its reaction has run.
C1_SendOutcome ==
    \A i \in SendOps :
        ReportedNoError(i) =>
            LET response == transport[i].calls[1].response
                outer == ops[i].outer
            IN /\ i \notin Range(jobs) => outer.state # "pending"
               /\ outer.state # "pending" =>
                    IF validate(response) # ValidTrue
                    THEN outer.state = "rejected" /\ outer.value = ErrVal(validate(response))
                    ELSE outer.state = "resolved" /\ outer.value = ResVal(response.items[1].result)

C1_Witness ==
    \E i, j \in SendOps :
        /\ i # j
        /\ ReportedNoError(i) /\ ReportedNoError(j)
        /\ ops[i].outer.state = "resolved" /\ ops[i].outer.value.result = "0x20"
        /\ ops[j].outer.state = "rejected" /\ ops[j].outer.value.err = "Node error"

C2_AtMostOnce ==
    \A i \in DOMAIN ops :
        LET p == ops[i].promise
        IN /\ p.state \in {"pending", "resolved", "rejected"}
           /\ p.settles <= 1
           /\ p.state = "pending" <=> p.settles = 0
           /\ ops[i].fired = 1 => p.settles = 1

C2_OutcomeKept ==
    \A i \in DOMAIN ops :
        ops[i].promise.state # "pending" => ops'[i].promise = ops[i].promise

\* C2: the promise of a sendPayload call is settled at most once, keeps its
\* outcome once settled, and is settled exactly once (resolved or rejected)
\* when the transport has invoked the callback.
C2_SettledOnce == [](C2_AtMostOnce) /\ [][C2_OutcomeKept]_vars

C2_Witness ==
    \E i, j \in DOMAIN ops :
        /\ ops[i].fired = 1 /\ ops[i].promise.state = "resolved"
        /\ ops[j].fired = 1 /\ ops[j].promise.state = "rejected"

\* C3: the promise of sendPayload resolves with the raw response the callback
\* received when the callback reported no error, whatever that response is,
\* and rejects with the callback's error otherwise.
C3_SettlesAsReported ==
    \A i \in DOMAIN ops :
        transport[i].calls # <<>> =>
            LET reported == transport[i].calls[1]
                p == ops[i].promise
            IN IF reported.error = Null
               THEN p.state = "resolved" /\ p.value = RawVal(reported.response)
               ELSE p.state = "rejected" /\ p.value = ErrVal(reported.error)

C3_Witness ==
    \E i, j \in DOMAIN ops :
        /\ ops[i].kind = "sendPayload"
        /\ ops[i].promise.state = "resolved"
        /\ ops[i].promise.value.raw = Single(ItemMalformed)
        /\ ops[j].promise.state = "rejected"
        /\ ops[j].promise.value.err \in TransportErrors

\* C4: a request's removeAllListeners(payload.id) happens once per callback
\* firing, with the payload's id, before the promise is resolved or
\* rejected, and never before the callback fires.
C4_CleanupBeforeSettle ==
    \A i \in DOMAIN ops :
        LET t == ops[i].trace
            cleanups == StepsOf(t, {"removeAllListeners"})
            settlings == StepsOf(t, {"resolve", "reject"})
            sends == StepsOf(t, {"connection.send"})
        IN /\ Cardinality(cleanups) = ops[i].fired
           /\ Cardinality(settlings) = ops[i].fired
           /\ \A c \in cleanups :
                /\ t[c].arg = PayloadId(ops[i].payload)
                /\ \A s \in sends : s < c
                /\ \A s \in settlings : c < s

C4_Witness ==
    \E i, j \in DOMAIN ops :
        /\ ops[i].trace[Len(ops[i].trace)] = Step("reject", "")
        /\ ops[i].trace[Len(ops[i].trace) - 1] = Step("removeAllListeners", PayloadId(ops[i].payload))
        /\ ops[j].trace[Len(ops[j].trace)] = Step("resolve", "")
        /\ ops[j].trace[Len(ops[j].trace) - 1] = Step("removeAllListeners", PayloadId(ops[j].payload))

\* C5: the payload sendBatch hands to the transport has one entry per input
\* method, in input order; each method's hook runs exactly once, before the
\* method is mapped (the entry carries the parameters the hook finalised),
\* and every hook has run before connection.send.
C5_BatchOrder ==
    \A i \in BatchOps :
        LET methods == ops[i].call.methods
            entries == ops[i].payload.entries
            t == ops[i].trace
        IN /\ ops[i].payload.array
           /\ transport[i].payload = ops[i].payload
           /\ Len(entries) = Len(methods)
           /\ \A k \in DOMAIN methods :
                /\ entries[k].method = methods[k].rpcMethod
                /\ entries[k].params = Append(methods[k].parameters, ops[i].call.moduleInstance)
                /\ \E h, m \in DOMAIN t :
                     /\ {x \in DOMAIN t : t[x] = Step("beforeExecution", ToString(k))} = {h}
                     /\ {x \in DOMAIN t : t[x] = Step("toPayload", ToString(k))} = {m}
                     /\ h < m
                     /\ \A s \in StepsOf(t, {"connection.send"}) : h < s
           /\ \A k, l \in DOMAIN methods :
                k < l => \A m \in DOMAIN t : t[m] = Step("toPayload", ToString(k)) =>
                            \A h \in DOMAIN t : t[h] = Step("beforeExecution", ToString(l)) => m < h

C5_Witness ==
    \E i \in BatchOps :
        /\ ops[i].call.methods = <<BlockNumber, GetBalance>>
        /\ Len(ops[i].payload.entries) = 2
        /\ ops[i].payload.entries[1].method = "eth_blockNumber"
        /\ ops[i].payload.entries[2].method = "eth_getBalance"

C6_OneSendRawArray ==
    \A i \in BatchOps :
        /\ Cardinality({r \in DOMAIN transport : transport[r].callback = i}) = 1
        /\ Cardinality(StepsOf(ops[i].trace, {"connection.send"})) = 1
        /\ Len(transport[i].calls) <= 1
        /\ ReportedNoError(i) =>
             /\ ops[i].promise.state = "resolved"
             /\ ops[i].promise.value = RawVal(transport[i].calls[1].response)
        /\ \A c \in StepsOf(ops[i].trace, {"removeAllListeners"}) : ops[i].trace[c].arg = Undefined

C6_ListenersKept ==
    \A i \in BatchOps : ops'[i].fired > ops[i].fired => listeners' = listeners

\* C6: a sendBatch call makes one connection.send with one completion
\* callback and resolves with the raw response array as delivered, error
\* elements included; its cleanup call has the key undefined and changes no
\* listener of the transport.
C6_BatchRaw == [](C6_OneSendRawArray) /\ [][C6_ListenersKept]_vars

C6_Witness ==
    \E i \in BatchOps :
        /\ ops[i].promise.state = "resolved"
        /\ ops[i].promise.value.raw = Array(<<ItemOk1, ItemRpcError>>)
        /\ removal.event = Undefined
        /\ listeners["data"] # <<>>

----------------------------------------------------------------------------
(* Properties of the listener lifecycle *)

\* The handler names bound to a transport event, in registration order.
Names(list) == [k \in DOMAIN list |-> list[k].name]

\* How many listeners of the category's event run the category's handler.
Bound(category) ==
    Cardinality({k \in DOMAIN listeners[EventOf(category)] :
                    listeners[EventOf(category)][k].name = HandlerOf(category)})

\* registerEventListeners was called exactly once.
RegisteredOnce == bindCount = 5

\* C7: after registerEventListeners(), removeAllListeners(close category)
\* leaves no close handler on the transport's end event, and removing one
\* category removes that category's listener and no other.
C7_CategoryRemoved ==
    RegisteredOnce =>
        /\ SOCKET_CLOSE \in cleared => "onClose" \notin Range(Dispatch(listeners, "end"))
        /\ \A c \in Categories :
             cleared = {c} =>
                /\ Bound(c) = 0
                /\ \A d \in Categories \ {c} : Bound(d) = 1

\* C8: after registerEventListeners(), once removeAllListeners has been
\* called for the connect and for the ready category, a connect event
\* invokes no handler.
C8_ConnectCleared ==
    (RegisteredOnce /\ {SOCKET_CONNECT, SOCKET_READY} \subseteq cleared) =>
        Dispatch(listeners, "connect") = <<>>

\* C9: when every registerEventListeners call after the first follows
\* removeAllListeners calls for all five categories, the transport holds at
\* most one listener per category.
C9_OneListenerPerCategory == \A c \in Categories : Bound(c) <= 1

\* What one registration binds to each transport event.
Expected(event) ==
    CASE event = "data" -> <<"onMessage">>
      [] event = "error" -> <<"onError">>
      [] event = "connect" -> <<"onConnect", "onReady">>
      [] event = "end" -> <<"onClose">>

\* The closures on the transport, over all events.
Closures == UNION {Range(listeners[e]) : e \in TransportEvents}

C10_FiveBindings ==
    (RegisteredOnce /\ cleared = {}) =>
        /\ \A e \in TransportEvents : Names(listeners[e]) = Expected(e)
        /\ Cardinality(Closures) = 5
        /\ \A f \in Closures : f.bound > 0

C10_EventsInvoke ==
    \A e \in TransportEvents :
        (RegisteredOnce /\ cleared = {} /\ Emit(e)) =>
            invoked' = [event |-> e, handlers |-> Expected(e)]

\* C10: one registerEventListeners() call on a transport without listeners
\* adds five bindings (message on data, error on error, connect and ready on
\* connect, close on end); a data, error or end event then invokes its own
\* handler once and a connect event the connect and the ready handler once each.
C10_RegisterBinds == [](C10_FiveBindings) /\ [][C10_EventsInvoke]_vars

C10_Witness ==
    /\ RegisteredOnce
    /\ cleared = {}
    /\ invoked = [event |-> "connect", handlers |-> <<"onConnect", "onReady">>]

----------------------------------------------------------------------------
(* Properties of removeAllListeners as the generic cleanup *)

C11_SuperCalledOnce ==
    removal.event # "none" => removal.super = <<removal.event>>

C11_RegistryKept ==
    \A event \in Tokens \ Categories :
        RemoveAllListeners(event) =>
            /\ listeners' = listeners
            /\ removal' = [event |-> event, super |-> <<event>>]

\* C11: removeAllListeners with a token that is no category token (a request
\* id, undefined) leaves the transport's registry as it was and makes the
\* internal removal call once, with that token; with a category token the
\* internal removal call is made once as well.
C11_UnknownToken == [](C11_SuperCalledOnce) /\ [][C11_RegistryKept]_vars

C11_Witness ==
    /\ listeners["data"] # <<>>
    /\ removal = [event |-> "1", super |-> <<"1">>]
    /\ cleared = {}

----------------------------------------------------------------------------
(* Properties of the connection state and of waiting requests *)

\* C12: a read of connected gives what the transport's isConnected() answers
\* at that moment, whatever ran before, and changes nothing else.
C12_ConnectedReflects ==
    [][ReadConnected =>
         /\ returned' = [call |-> "connected", value |-> isConnected]
         /\ UNCHANGED <<listenerVars, requestVars, isConnected>>]_vars

C12_Witness ==
    /\ returned = [call |-> "connected", value |-> FALSE]
    /\ ~isConnected
    /\ listeners["connect"] # <<>>
    /\ \E i \in DOMAIN ops : ops[i].outer.state = "resolved"

\* C13: disconnect() returns true and leaves the transport's registry, its
\* connectivity, the sends it received and every request as they were.
C13_DisconnectNoop ==
    [][Disconnect =>
         /\ returned' = [call |-> "disconnect", value |-> TRUE]
         /\ UNCHANGED <<listenerVars, requestVars, isConnected>>]_vars

C13_Witness ==
    /\ returned = [call |-> "disconnect", value |-> TRUE]
    /\ listeners["end"] # <<>>
    /\ \E i \in DOMAIN ops : ops[i].promise.state = "pending"
    /\ \E i \in DOMAIN ops : ops[i].promise.state = "rejected"

C16_PendingUntilFired ==
    \A i \in DOMAIN ops :
        ops[i].fired = 0 => ops[i].promise.state = "pending" /\ Returned(ops[i]).state = "pending"

C16_OnlyOwnCallback ==
    \A i \in DOMAIN ops :
        (ops[i].promise.state = "pending" /\ ops'[i].promise.state # "pending") =>
            /\ Len(transport'[i].calls) = Len(transport[i].calls) + 1
            /\ ops'[i].fired = ops[i].fired + 1

\* C16: the promise of sendPayload stays pending until the transport invokes
\* that request's own callback; no transport event, listener registration or
\* removal, disconnect() or callback of another request settles it.
C16_StaysPending == [](C16_PendingUntilFired) /\ [][C16_OnlyOwnCallback]_vars

C16_Witness ==
    /\ Len(ops) = 2
    /\ ops[1].promise.state = "pending"
    /\ ops[2].outer.state # "pending"
    /\ invoked = [event |-> "data", handlers |-> <<"onMessage">>]
    /\ removal.event = Undefined
    /\ returned.call = "disconnect"

----------------------------------------------------------------------------
(* Properties of concurrent requests and of failures *)

\* C14: each send maps one payload and forwards that payload in one
\* connection.send, and the payload ids of the sends of one provider are
\* pairwise distinct.
C14_FreshPayload ==
    \A i \in SendOps :
        /\ Cardinality(StepsOf(ops[i].trace, {"toPayload"})) = 1
        /\ Cardinality(StepsOf(ops[i].trace, {"connection.send"})) = 1
        /\ ~ops[i].payload.array
        /\ ops[i].payload.entries[1].method = ops[i].call.methods[1].rpcMethod
        /\ ops[i].payload.entries[1].params = ops[i].call.methods[1].parameters
        /\ transport[i].payload = ops[i].payload
        /\ \A j \in SendOps \ {i} : PayloadId(ops[j].payload) # PayloadId(ops[i].payload)

C14_Witness ==
    /\ SendOps = {1, 2}
    /\ \A i \in SendOps : ops[i].fired = 0
    /\ ops[1].call = ops[2].call

C15_OwnAnswer ==
    \A i \in DOMAIN ops :
        ops[i].promise.state # "pending" =>
            /\ transport[i].calls # <<>>
            /\ ops[i].promise.value =
                   IF transport[i].calls[1].error = Null
                   THEN RawVal(transport[i].calls[1].response)
                   ELSE ErrVal(transport[i].calls[1].error)

C15_OthersUntouched ==
    \A i \in DOMAIN ops :
        ops'[i] # ops[i] =>
            \/ Len(transport'[i].calls) = Len(transport[i].calls) + 1
            \/ jobs # <<>> /\ Head(jobs) = i /\ jobs' = Tail(jobs)

\* C15: in whatever order the transport fires the callbacks of several
\* waiting requests, each request settles with what its own callback was
\* given, and a step changes no request but the one whose callback fired or
\* whose reaction ran.
C15_RoutedByClosure == [](C15_OwnAnswer) /\ [][C15_OthersUntouched]_vars

C15_Witness ==
    /\ Len(ops) = 2
    /\ ops[1].fired = 0 /\ Returned(ops[1]).state = "pending"
    /\ ops[2].kind = "send" /\ ops[2].outer.state = "resolved"
    /\ ops[1].kind \in {"send", "sendPayload"}

\* The callback of send i has been told of a transport error.
ReportedError(i) == transport[i].calls # <<>> /\ transport[i].calls[1].error # Null

\* C17: a send whose callback reported an error rejects with exactly that
\* error, without a validator call or a result extraction, and after the
\* cleanup removeAllListeners(payload.id).
C17_TransportErrorUnmodified ==
    \A i \in SendOps :
        ReportedError(i) =>
            /\ ops[i].promise = [state |-> "rejected", value |-> ErrVal(transport[i].calls[1].error), settles |-> 1]
            /\ StepsOf(ops[i].trace, {"validate", "return", "throw"}) = {}
            /\ Cardinality(StepsOf(ops[i].trace, {"removeAllListeners"})) = 1
            /\ ops[i].trace[CHOOSE k \in StepsOf(ops[i].trace, {"removeAllListeners"}) : TRUE].arg
                   = PayloadId(ops[i].payload)
            /\ IF i \in Range(jobs)
               THEN ops[i].outer.state = "pending"
               ELSE ops[i].outer = [state |-> "rejected", value |-> ErrVal(transport[i].calls[1].error), settles |-> 1]

C17_Witness ==
    \E i \in SendOps :
        /\ ReportedError(i)
        /\ ops[i].outer.state = "rejected"
        /\ ops[i].outer.value = ErrVal("connection lost")

C18_OneSendEach ==
    /\ Len(transport) = Len(ops)
    /\ \A i \in DOMAIN ops :
           /\ Cardinality(StepsOf(ops[i].trace, {"connection.send"})) = 1
           /\ transport[i].callback = i

C18_FailureSendsNothing ==
    \A i \in DOMAIN ops :
        (Returned(ops[i]).state = "pending" /\ Returned(ops'[i]).state = "rejected") =>
            /\ Len(transport') = Len(transport)
            /\ \A r \in DOMAIN transport : transport'[r].payload = transport[r].payload
            /\ \A j \in DOMAIN ops \ {i} : Returned(ops'[j]) = Returned(ops[j])

\* C18: the transport has received exactly one send per sendPayload
\* invocation, and a step in which a request fails, by transport error or by
\* validation error, sends nothing and leaves the other requests' outcomes
\* as they were.
C18_NoRetries == [](C18_OneSendEach) /\ [][C18_FailureSendsNothing]_vars

C18_Witness ==
    /\ Len(transport) = 2
    /\ {ops[1].kind, ops[2].kind} \in {{"send", "sendBatch"}, {"send", "sendPayload"}}
    /\ \E i \in SendOps :
           /\ ops[i].outer.state = "rejected"
           /\ ops[i].promise.state = "resolved"
    /\ \E i \in DOMAIN ops : ops[i].promise.state = "rejected"

----------------------------------------------------------------------------
(* Properties of calls that raise *)

\* The position of the first method whose hook raises, 0 when none does.
RaisingIndex(methods, moduleInstance) ==
    LET raising == {k \in DOMAIN methods : hookError(methods[k], moduleInstance) # Null}
    IN IF raising = {} THEN 0 ELSE CHOOSE k \in raising : \A j \in raising : k <= j

\* How often the hook of the j-th method was invoked in a trace.
HookRuns(trace, j) ==
    Cardinality({p \in DOMAIN trace : trace[p] = Step("beforeExecution", ToString(j))})

C19_HooksUpToRaise ==
    thrown.call = "sendBatch" =>
        LET k == RaisingIndex(thrown.methods, "eth")
        IN /\ k # 0
           /\ thrown.error = hookError(thrown.methods[k], "eth")
           /\ \A j \in DOMAIN thrown.methods :
                  HookRuns(thrown.trace, j) = IF j <= k THEN 1 ELSE 0
           /\ StepsOf(thrown.trace, {"connection.send", "removeAllListeners"}) = {}

C19_NothingStarted ==
    \A methods \in HookBatches, m \in Modules :
        (RaisingIndex(methods, m) # 0 /\ SendBatch(methods, m)) =>
            /\ thrown' = [call |-> "sendBatch", methods |-> methods,
                          error |-> hookError(methods[RaisingIndex(methods, m)], m),
                          trace |-> thrown'.trace]
            /\ UNCHANGED <<ops, transport, jobs, listenerVars>>

\* C19: when the hook of the k-th method of a sendBatch call raises, the call
\* raises that error to its caller: the hooks of methods 1..k ran once each,
\* those after k did not run, nothing was sent, no request was created and
\* no cleanup was made.
C19_HookRaises == [](C19_HooksUpToRaise) /\ [][C19_NothingStarted]_vars

C19_Witness ==
    /\ thrown.methods = <<GetBalance, Unformattable, BlockNumber>>
    /\ thrown.error = "invalid address"
    /\ listeners["data"] # <<>>
    /\ Len(ops) = 1 /\ ops[1].promise.state = "pending"

\* The requests whose connection.send raised, and what it raised.
RaisedOps == {i \in DOMAIN ops : StepsOf(ops[i].trace, {"raised"}) # {}}
RaisedError(i) == ops[i].trace[CHOOSE k \in StepsOf(ops[i].trace, {"raised"}) : TRUE].arg

\* C20 as stated: a request whose connection.send raised is rejected with
\* the raised error and removeAllListeners(payload.id) is never invoked for it.
C20_NeverCleaned ==
    \A i \in RaisedOps :
        /\ ops[i].promise.state = "rejected"
        /\ ops[i].promise.value = ErrVal(RaisedError(i))
        /\ StepsOf(ops[i].trace, {"removeAllListeners"}) = {}

\* C20, amended: a request whose connection.send raised is rejected with the
\* raised error, settled once; removeAllListeners(payload.id) is invoked for
\* it only by a later firing of its callback, once per firing, and no such
\* firing changes the rejected outcome, of sendPayload or of send.
C20_RejectedAndKept ==
    \A i \in RaisedOps :
        /\ ops[i].promise = [state |-> "rejected", value |-> ErrVal(RaisedError(i)), settles |-> 1]
        /\ Cardinality(StepsOf(ops[i].trace, {"removeAllListeners"})) = ops[i].fired
        /\ ops[i].fired = Len(transport[i].calls)
        /\ ops[i].kind = "send" =>
               IF i \in Range(jobs)
               THEN ops[i].outer.state = "pending"
               ELSE ops[i].outer = [state |-> "rejected", value |-> ErrVal(RaisedError(i)), settles |-> 1]

C20_Witness ==
    \E i \in RaisedOps :
        /\ ops[i].kind = "sendPayload"
        /\ transport[i].calls # <<>>
        /\ transport[i].calls[1].error = Null
        /\ ops[i].promise.value = ErrVal("transport closed")
        /\ \E j \in RaisedOps : ops[j].kind = "send" /\ ops[j].fired = 0 /\ ops[j].outer.state = "rejected"

====
